---- MODULE Spec2Model ----
(***************************************************************************)
(* Model of luminance.py: calculate_luminance_variance(image_path).        *)
(*                                                                         *)
(* The pipeline is one straight-line function.  Its position is `pc`, its  *)
(* local variables are the variables of the model, and every statement of  *)
(* the function is one action.  All arithmetic of the function is IEEE-754 *)
(* binary64 ("float" of numpy and Python); it is modelled bit for bit, as  *)
(* sign, 53-bit significand and exponent, with round-to-nearest-even.      *)
(* Significands do not fit TLC's 32-bit integers, so they are kept as      *)
(* little-endian sequences of 14-bit limbs.                                *)
(***************************************************************************)
EXTENDS Integers, Sequences, FiniteSets, TLC

(***************************************************************************)
(* Natural numbers of any size: little-endian limb sequences, no leading   *)
(* zero limb, zero is << >>.                                               *)
(*                                                                         *)
(* An operand that is used more than once is first bound by a one-element  *)
(* set, { body : x \in {operand} }, so that it is evaluated once.          *)
(***************************************************************************)
LimbBits == 14
Base == 2^LimbBits

Only(S) == CHOOSE r \in S : TRUE

Min(a, b) == IF a <= b THEN a ELSE b
Max(a, b) == IF a >= b THEN a ELSE b

Limb(a, i) == IF i >= 1 /\ i <= Len(a) THEN a[i] ELSE 0

\* the index of the highest non-zero limb among a[1..i], or 0
RECURSIVE TopLimb(_, _)
TopLimb(a, i) == IF i = 0 THEN 0 ELSE IF a[i] # 0 THEN i ELSE TopLimb(a, i - 1)

Trim(a0) == Only({ SubSeq(a, 1, TopLimb(a, Len(a))) : a \in {a0 \o << >>} })

\* carry propagation over a[i..], with carry c coming in
RECURSIVE Carry(_, _, _)
Carry(a, i, c0) ==
    Only({ IF i > Len(a)
           THEN IF c = 0 THEN << >> ELSE <<c % Base>> \o Carry(a, i, c \div Base)
           ELSE <<(a[i] + c) % Base>> \o Carry(a, i + 1, (a[i] + c) \div Base)
           : c \in {c0} })

BNorm(a0) == Only({ Trim(Carry(a, 1, 0)) : a \in {a0 \o << >>} })

BAdd(a0, b0) ==
    Only({ BNorm([i \in 1..Max(Len(a), Len(b)) |-> Limb(a, i) + Limb(b, i)])
           : a \in {a0}, b \in {b0} })

\* a - b, for a >= b
BSub(a0, b0) ==
    Only({ BNorm([i \in 1..Max(Len(a), Len(b)) |-> Limb(a, i) - Limb(b, i)])
           : a \in {a0}, b \in {b0} })

RECURSIVE ConvSum(_, _, _, _)
ConvSum(a, b, k, i) ==
    IF i > Len(a) THEN 0
    ELSE Limb(a, i) * Limb(b, k - i + 1) + ConvSum(a, b, k, i + 1)

\* a * b, for operands of at most four limbs (a significand)
BMul(a0, b0) ==
    Only({ IF Len(a) = 0 \/ Len(b) = 0 THEN << >>
           ELSE BNorm([k \in 1..(Len(a) + Len(b) - 1) |-> ConvSum(a, b, k, 1)])
           : a \in {a0}, b \in {b0} })

RECURSIVE CmpFrom(_, _, _)
CmpFrom(a, b, i) ==
    IF i = 0 THEN 0
    ELSE IF a[i] > b[i] THEN 1
    ELSE IF a[i] < b[i] THEN -1
    ELSE CmpFrom(a, b, i - 1)

BCmp(a0, b0) ==
    Only({ IF Len(a) > Len(b) THEN 1
           ELSE IF Len(a) < Len(b) THEN -1
           ELSE CmpFrom(a, b, Len(a))
           : a \in {a0}, b \in {b0} })

RECURSIVE Bits(_)
Bits(n) == IF n = 0 THEN 0 ELSE 1 + Bits(n \div 2)

BBitLen(a0) ==
    Only({ IF Len(a) = 0 THEN 0 ELSE (Len(a) - 1) * LimbBits + Bits(a[Len(a)])
           : a \in {a0} })

BShl(a0, k0) ==
    Only({ IF Len(a) = 0 THEN << >>
           ELSE [i \in 1..(k \div LimbBits) |-> 0]
                \o BNorm([i \in 1..Len(a) |-> a[i] * 2^(k % LimbBits)])
           : a \in {a0}, k \in {k0} })

\* a shifted right by k0 bits: q whole limbs and r bits
BShr(a0, k0) ==
    Only({ IF Len(a) <= q THEN << >>
           ELSE Trim([i \in 1..(Len(a) - q) |->
                    (Limb(a, i + q) \div 2^r)
                    + (Limb(a, i + q + 1) % 2^r) * 2^(LimbBits - r)])
           : a \in {a0}, q \in {k0 \div LimbBits}, r \in {k0 % LimbBits} })

\* bit k of a, bit 0 the lowest
BBit(a, k) == (Limb(a, (k \div LimbBits) + 1) \div 2^(k % LimbBits)) % 2

\* the k lowest bits of a are all zero
BLowZero(a, k) ==
    /\ \A i \in 1..(k \div LimbBits) : Limb(a, i) = 0
    /\ Limb(a, (k \div LimbBits) + 1) % 2^(k % LimbBits) = 0

\* long division of a[1..i] by a small d, from the highest limb down, with
\* remainder r coming in from the limbs above
RECURSIVE DivFrom(_, _, _, _)
DivFrom(a, d, i, r) ==
    IF i = 0 THEN [q |-> << >>, r |-> r]
    ELSE Only({ Only({ [q |-> Append(rest.q, t \div d), r |-> rest.r]
                       : rest \in {DivFrom(a, d, i - 1, t % d)} })
                : t \in {r * Base + a[i]} })

BToInt(a) == Limb(a, 1) + Base * Limb(a, 2)

(***************************************************************************)
(* binary64.  A number is [s, m, e]: (-1)^s * m * 2^e, m of exactly        *)
(* Precision bits, or the zero [s |-> 0, m |-> << >>, e |-> 0].  The       *)
(* magnitudes of this program (1e-40 .. 1e3) are far from the subnormal    *)
(* and overflow ranges, so the exponent needs no clamping.                 *)
(***************************************************************************)
Precision == 53

FZero == [s |-> 0, m |-> << >>, e |-> 0]

IsZero(x) == Len(x.m) = 0

\* M of more than Precision bits, cut to Precision bits: sh bits are dropped,
\* to nearest, ties to even
RoundCut(s, M, e, sh) ==
    Only({ Only({ IF BBitLen(q1) > Precision
                  THEN [s |-> s, m |-> BShr(q1, 1), e |-> e + sh + 1]
                  ELSE [s |-> s, m |-> q1, e |-> e + sh]
                  : q1 \in { IF /\ BBit(M, sh - 1) = 1
                                /\ (~BLowZero(M, sh - 1) \/ q[1] % 2 = 1)
                             THEN BAdd(q, <<1>>) ELSE q } })
           : q \in {BShr(M, sh)} })

\* round-to-nearest, ties-to-even, of (-1)^s * M * 2^e
Round(s, M0, e) ==
    Only({ IF Len(M) = 0 THEN FZero
           ELSE Only({ IF nb <= Precision
                       THEN [s |-> s, m |-> BShl(M, Precision - nb),
                             e |-> e - (Precision - nb)]
                       ELSE RoundCut(s, M, e, nb - Precision)
                       : nb \in {BBitLen(M)} })
           : M \in {M0} })

\* int -> float (exact for |n| < 2^31)
FromInt(n) ==
    IF n = 0 THEN FZero
    ELSE IF n > 0 THEN Round(0, BNorm(<<n>>), 0)
    ELSE Round(1, BNorm(<<-n>>), 0)

FNeg(x0) == Only({ IF IsZero(x) THEN x ELSE [x EXCEPT !.s = 1 - x.s] : x \in {x0} })

FAbs(x) == [x EXCEPT !.s = 0]

\* x + y for non-zero x and y, aligned to the lower exponent e
AddAligned(x, y, e) ==
    Only({ IF x.s = y.s THEN Round(x.s, BAdd(a, b), e)
           ELSE Only({ IF c = 0 THEN FZero
                       ELSE IF c > 0 THEN Round(x.s, BSub(a, b), e)
                       ELSE Round(y.s, BSub(b, a), e)
                       : c \in {BCmp(a, b)} })
           : a \in {BShl(x.m, x.e - e)}, b \in {BShl(y.m, y.e - e)} })

\* x + y
FAdd(x0, y0) ==
    Only({ IF IsZero(x) THEN y
           ELSE IF IsZero(y) THEN x
           ELSE AddAligned(x, y, Min(x.e, y.e))
           : x \in {x0}, y \in {y0} })

\* x - y
FSub(x, y) == FAdd(x, FNeg(y))

\* x * y
FMul(x0, y0) ==
    Only({ IF IsZero(x) \/ IsZero(y) THEN FZero
           ELSE Round((x.s + y.s) % 2, BMul(x.m, y.m), x.e + y.e)
           : x \in {x0}, y \in {y0} })

\* x / d for an integer-valued divisor 1 <= d < Base: the quotient is taken
\* with 28 extra bits and the remainder is kept as a sticky bit
FDivInt(x0, d) ==
    Only({ IF IsZero(x) THEN FZero
           ELSE Only({ Round(x.s,
                             BAdd(BShl(Trim(dv.q), 1),
                                  IF dv.r = 0 THEN << >> ELSE <<1>>),
                             x.e - 2 * LimbBits - 1)
                       : dv \in { Only({ DivFrom(n, d, Len(n), 0)
                                         : n \in {BShl(x.m, 2 * LimbBits)} }) } })
           : x \in {x0} })

\* x < y
FLess(x0, y0) ==
    Only({ IF IsZero(x) THEN (~IsZero(y) /\ y.s = 0)
           ELSE IF IsZero(y) THEN x.s = 1
           ELSE IF x.s # y.s THEN x.s = 1
           ELSE IF x.s = 0
                THEN (IF x.e # y.e THEN x.e < y.e ELSE BCmp(x.m, y.m) < 0)
                ELSE (IF x.e # y.e THEN x.e > y.e ELSE BCmp(x.m, y.m) > 0)
           : x \in {x0}, y \in {y0} })

FLeq(x, y) == ~FLess(y, x)

\* truncation toward zero of a float 0 <= x < 2^28 to an int
FTrunc(x0) ==
    Only({ IF IsZero(x) THEN 0
           ELSE IF x.e >= 0 THEN BToInt(BShl(x.m, x.e))
           ELSE BToInt(BShr(x.m, -x.e))
           : x \in {x0} })

(***************************************************************************)
(* The inputs.  A decoded image is what np.array(img) yields for a PIL     *)
(* image: a 2-D grid for mode L, a 3-D grid with 2, 3 or 4 channels for    *)
(* modes LA, RGB and RGBA; px lists the pixels row by row, each pixel the  *)
(* tuple of its samples.                                                   *)
(***************************************************************************)
MaxPixels == 3

Colours ==
    { <<0, 0, 0>>, <<255, 255, 255>>, <<200, 100, 50>>,
      <<51, 51, 51>>, <<204, 204, 204>> }

WideSamples == {0, 1, 127, 128, 254, 255}

WideColours == {<<r, g, b>> : r \in WideSamples, g \in WideSamples, b \in WideSamples}

AlphaColours == { <<255, 255, 255>>, <<200, 100, 50>> }

ExtraSamples == {0, 255}

GraySamples == {0, 128, 255}

GrayAlphaPixels == { <<0, 255>>, <<128, 0>>, <<255, 255>> }

Shapes(n) == {sh \in (1..n) \X (1..n) : sh[1] * sh[2] = n}

ImagesOf(mode, ndim, C, P) ==
    UNION { { [mode |-> mode, ndim |-> ndim, H |-> sh[1], W |-> sh[2],
               C |-> C, px |-> g] : sh \in Shapes(n), g \in [1..n -> P] }
            : n \in 1..MaxPixels }

Images ==
    ImagesOf("L", 2, 1, {<<g>> : g \in GraySamples})
    \cup ImagesOf("LA", 3, 2, GrayAlphaPixels)
    \cup ImagesOf("RGB", 3, 3, Colours)
    \cup { [mode |-> "RGB", ndim |-> 3, H |-> 1, W |-> 1, C |-> 3, px |-> <<c>>]
           : c \in WideColours }
    \cup ImagesOf("RGBA", 3, 4, {c \o <<a>> : c \in AlphaColours, a \in ExtraSamples})

NoImage == [mode |-> "", ndim |-> 0, H |-> 0, W |-> 0, C |-> 0, px |-> << >>]

\* the value of a float variable that has not been assigned
Unbound == [s |-> 0, m |-> << >>, e |-> 1]

(***************************************************************************)
(* The pipeline's functions.                                               *)
(***************************************************************************)
\* the samples divided by 256.0, the number of levels, not by the highest level
Normalize256(image) ==
    [image EXCEPT !.px = [i \in 1..Len(image.px) |->
        [k \in 1..Len(image.px[i]) |-> FDivInt(FromInt(image.px[i][k]), 256)]
        \o << >>] \o << >>]

\* np.array(img).astype(float) / 255.0
Normalize(image) ==
    [image EXCEPT !.px = [i \in 1..Len(image.px) |->
        [k \in 1..Len(image.px[i]) |-> FDivInt(FromInt(image.px[i][k]), 255)]
        \o << >>] \o << >>]

\* the literals 0.2126, 0.7152, 0.0722: the doubles nearest to the decimals
r_coeff == FDivInt(FromInt(2126), 10000)
g_coeff == FDivInt(FromInt(7152), 10000)
b_coeff == FDivInt(FromInt(722), 10000)

\* indexing that never faults: a 2-D grid is read as its own single channel, and
\* a channel index past the last wraps around
ChannelWrap(arr, k) ==
    [ok |-> TRUE,
     grid |-> [i \in 1..Len(arr.px) |->
                 IF arr.ndim = 2 THEN arr.px[i][1] ELSE arr.px[i][(k % arr.C) + 1]]
              \o << >>]

\* a four-channel grid read as alpha-first (A, R, G, B)
ChannelAfterAlpha(arr, k) ==
    IF arr.ndim = 3 /\ k < arr.C
    THEN [ok |-> TRUE,
          grid |-> [i \in 1..Len(arr.px) |->
                      IF arr.C = 4 /\ k < 3 THEN arr.px[i][k + 2] ELSE arr.px[i][k + 1]]
                   \o << >>]
    ELSE [ok |-> FALSE, grid |-> << >>]

\* arr[:,:,k]: an IndexError (ok = FALSE) unless arr is 3-D with more than k channels
Channel(arr, k) ==
    IF arr.ndim = 3 /\ k < arr.C
    THEN [ok |-> TRUE, grid |-> [i \in 1..Len(arr.px) |-> arr.px[i][k + 1]] \o << >>]
    ELSE [ok |-> FALSE, grid |-> << >>]

\* arr[:,:,0] * r_coeff + arr[:,:,1] * g_coeff + arr[:,:,2] * b_coeff
LuminanceOf(arr) ==
    Only({ IF c0.ok /\ c1.ok /\ c2.ok
           THEN [ok |-> TRUE,
                 grid |-> [i \in 1..Len(arr.px) |->
                     FAdd(FAdd(FMul(c0.grid[i], r_coeff), FMul(c1.grid[i], g_coeff)),
                          FMul(c2.grid[i], b_coeff))] \o << >>]
           ELSE [ok |-> FALSE, grid |-> << >>]
           : c0 \in {Channel(arr, 0)}, c1 \in {Channel(arr, 1)},
             c2 \in {Channel(arr, 2)} })

\* np.sum over a contiguous grid of fewer than 8 elements: numpy's pairwise
\* summation adds such a block left to right, starting from 0.0
RECURSIVE SumTo(_, _)
SumTo(xs, n) == IF n = 0 THEN FZero ELSE FAdd(SumTo(xs, n - 1), xs[n])

\* a sum that starts at the second element
np_sum_skip_first(xs0) == Only({ SumTo(Tail(xs), Len(xs) - 1) : xs \in {xs0 \o << >>} })

np_sum(xs0) == Only({ SumTo(xs, Len(xs)) : xs \in {xs0 \o << >>} })

\* x ** 2: for an array np.square, x * x; for the float64 scalar of line 30
\* the C library's pow(x, 2), taken here to be the correctly rounded x * x
Square(x) == FMul(x, x)

SquareAll(xs0) == Only({ [i \in 1..Len(xs) |-> Square(xs[i])] : xs \in {xs0 \o << >>} })

\* xs - m
SubAll(xs0, m0) ==
    Only({ [i \in 1..Len(xs) |-> FSub(xs[i], m)] : xs \in {xs0 \o << >>}, m \in {m0} })

\* np.mean(xs)
np_mean(xs0) == Only({ FDivInt(np_sum(xs), Len(xs)) : xs \in {xs0 \o << >>} })

\* the sample variance (ddof = 1), a single element divided by 1
np_var_sample(xs0) ==
    Only({ Only({ FDivInt(np_sum([i \in 1..Len(x) |-> FMul(x[i], x[i])]),
                          Max(Len(xs) - 1, 1))
                  : x \in {SubAll(xs, FDivInt(np_sum(xs), Len(xs))) \o << >>} })
           : xs \in {xs0 \o << >>} })

\* np.var(xs), ddof = 0: arrmean = sum / n; x = xs - arrmean; x = x * x; sum / n
np_var(xs0) ==
    Only({ Only({ FDivInt(np_sum([i \in 1..Len(x) |-> FMul(x[i], x[i])]), Len(xs))
                  : x \in {SubAll(xs, FDivInt(np_sum(xs), Len(xs))) \o << >>} })
           : xs \in {xs0 \o << >>} })

\* the mean left unsquared: (sum_lum_squared / N) - (sum_lum / N)
VarianceManualNoSquare(s, s2, n) == FSub(FDivInt(s2, n), FDivInt(s, n))

\* (sum_lum_squared / N) - (sum_lum / N) ** 2
VarianceManual(s, s2, n) == FSub(FDivInt(s2, n), Square(FDivInt(s, n)))

\* np.mean((xs - mean) ** 2)
VarianceMean(xs, mean) == np_mean(SquareAll(SubAll(xs, mean)))

(***************************************************************************)
(* np.histogram(a, bins=50, range=(0,1)), as numpy computes it for         *)
(* equal-width bins.                                                       *)
(***************************************************************************)
n_equal_bins == 50

\* the range of the samples before normalisation
HistRangeBytes == <<0, 255>>

HistRange == <<0, 1>>

first_edge == FromInt(HistRange[1])
last_edge == FromInt(HistRange[2])

\* np.linspace(first_edge, last_edge, n_equal_bins + 1): bin_edges[i + 1] is edge i
bin_edges ==
    LET step == FDivInt(FSub(last_edge, first_edge), n_equal_bins)
    IN  [j \in 1..(n_equal_bins + 1) |->
            IF j = n_equal_bins + 1 THEN last_edge
            ELSE FAdd(FMul(FromInt(j - 1), step), first_edge)]

\* a last bin that is half-open like the others
KeepHalfOpen(v) == FLeq(first_edge, v) /\ FLess(v, last_edge)

\* keep = (a >= first_edge) & (a <= last_edge)
Keep(v) == FLeq(first_edge, v) /\ FLeq(v, last_edge)

\* the bin (0..49) of a kept value v: the index computed from v, then the
\* three corrections at the edges
BinIndex(v) ==
    Only({ Only({ IF FLeq(bin_edges[i2 + 2], v) /\ i2 # n_equal_bins - 1
                  THEN i2 + 1 ELSE i2
                  : i2 \in {IF FLess(v, bin_edges[i1 + 1]) THEN i1 - 1 ELSE i1} })
           : i1 \in { Only({ IF i0 = n_equal_bins THEN i0 - 1 ELSE i0
                             : i0 \in { FTrunc(FMul(
                                  FDivInt(FSub(v, first_edge),
                                          HistRange[2] - HistRange[1]),
                                  FromInt(n_equal_bins))) } }) } })

\* np.bincount(indices, minlength=50): counts[i + 1] is the count of bin i
bincount(indices) ==
    [j \in 1..n_equal_bins |->
        Cardinality({i \in 1..Len(indices) : indices[i] = j - 1})]

\* the counts of np.histogram: the values out of the range are dropped, the
\* others indexed and counted
HistCounts(xs) ==
    Only({ bincount(indices)
           : indices \in { Only({ [i \in 1..Len(kept) |-> BinIndex(kept[i])] \o << >>
                                  : kept \in {SelectSeq(xs, Keep)} }) } })

(***************************************************************************)
(* The state: the position in the program, the file handle PIL holds, the  *)
(* function's locals, the lines printed and the value returned.            *)
(***************************************************************************)
VARIABLES pc, fp, exc, raised_at, img, img_array, luminance, variance_np, N,
          sum_lum, sum_lum_squared, variance_manual, mean_lum, variance_mean,
          hist, bins, out, ret

vars == <<pc, fp, exc, raised_at, img, img_array, luminance, variance_np, N,
          sum_lum, sum_lum_squared, variance_manual, mean_lum, variance_mean,
          hist, bins, out, ret>>

files == <<fp, exc, raised_at>>
arrays == <<img, img_array, luminance>>
method1 == <<variance_np>>
method2 == <<N, sum_lum, sum_lum_squared, variance_manual>>
method3 == <<mean_lum, variance_mean>>
histo == <<hist, bins>>

Init ==
    /\ pc = "main"
    /\ fp = "none"
    /\ exc = "none"
    /\ raised_at = "none"
    /\ img = NoImage
    /\ img_array = NoImage
    /\ luminance = << >>
    /\ variance_np = Unbound
    /\ N = 0
    /\ sum_lum = Unbound
    /\ sum_lum_squared = Unbound
    /\ variance_manual = Unbound
    /\ mean_lum = Unbound
    /\ variance_mean = Unbound
    /\ hist = << >>
    /\ bins = << >>
    /\ out = << >>
    /\ ret = Unbound

\* an exception leaves the function: nothing in the program catches it
Raise(e, where) ==
    /\ pc' = "raised"
    /\ exc' = e
    /\ raised_at' = where

\* __main__: calculate_luminance_variance(sys.argv[1])
Main ==
    /\ pc = "main"
    /\ \/ /\ Raise("IndexError", "main")
          /\ fp' = fp
       \/ /\ pc' = "start"
          /\ UNCHANGED files
    /\ UNCHANGED <<arrays, method1, method2, method3, histo, out, ret>>

\* img = Image.open(image_path): PIL opens the file and reads its header; the
\* handle stays open in img for the lazy decode
Open ==
    /\ pc = "start"
    /\ \/ /\ Raise("FileNotFoundError", "open")
          /\ fp' = "none"
       \/ /\ Raise("UnidentifiedImageError", "open")
          /\ fp' = "closed"
       \/ /\ pc' = "opened"
          /\ fp' = "open"
          /\ UNCHANGED <<exc, raised_at>>
    /\ UNCHANGED <<arrays, method1, method2, method3, histo, out, ret>>

\* img_array = np.array(img).astype(float) / 255.0: PIL decodes the pixels and
\* closes its handle once they are loaded; a truncated file raises in the decoder
\* and the handle stays as it is
ToArray ==
    /\ pc = "opened"
    /\ \/ /\ Raise("OSError", "array")
          /\ UNCHANGED <<fp, arrays>>
       \/ \E image \in Images :
             /\ img' = image
             /\ img_array' = Normalize(image)
             /\ fp' = "closed"
             /\ pc' = "array"
             /\ UNCHANGED <<exc, raised_at, luminance>>
    /\ UNCHANGED <<method1, method2, method3, histo, out, ret>>

\* luminance = (img_array[:,:,0] * r_coeff + ...)
Luminance ==
    /\ pc = "array"
    /\ \E l \in {LuminanceOf(img_array)} :
          IF l.ok
          THEN /\ luminance' = l.grid
               /\ pc' = "luminance"
               /\ UNCHANGED <<exc, raised_at>>
          ELSE /\ Raise("IndexError", "luminance")
               /\ UNCHANGED luminance
    /\ UNCHANGED <<fp, img, img_array, method1, method2, method3, histo, out, ret>>

\* variance_np = np.var(luminance)
Method1 ==
    /\ pc = "luminance"
    /\ variance_np' = np_var(luminance)
    /\ pc' = "method1"
    /\ UNCHANGED <<files, arrays, method2, method3, histo, out, ret>>

\* N, sum_lum, sum_lum_squared, variance_manual
Method2 ==
    /\ pc = "method1"
    /\ N' = Len(luminance)
    /\ sum_lum' = np_sum(luminance)
    /\ sum_lum_squared' = np_sum(SquareAll(luminance))
    /\ variance_manual' = VarianceManual(sum_lum', sum_lum_squared', N')
    /\ pc' = "method2"
    /\ UNCHANGED <<files, arrays, method1, method3, histo, out, ret>>

\* mean_lum, variance_mean
Method3 ==
    /\ pc = "method2"
    /\ mean_lum' = np_mean(luminance)
    /\ variance_mean' = VarianceMean(luminance, mean_lum')
    /\ pc' = "method3"
    /\ UNCHANGED <<files, arrays, method1, method2, histo, out, ret>>

\* the ten print statements of the report (the lines, not their formatted numbers)
ReportLines ==
    << "Image statistics:", "Dimensions", "Number of pixels", "Mean luminance",
       "Min luminance", "Max luminance", "Variance calculations:",
       "Method 1 (numpy.var)", "Method 2 (sum/sum-squared)",
       "Method 3 (mean subtraction)" >>

Report ==
    /\ pc = "method3"
    /\ out' = out \o ReportLines
    /\ pc' = "reported"
    /\ UNCHANGED <<files, arrays, method1, method2, method3, histo, ret>>

\* hist, bins = np.histogram(luminance, bins=50, range=(0,1)), and its two prints
Histogram ==
    /\ pc = "reported"
    /\ hist' = HistCounts(luminance)
    /\ bins' = bin_edges
    /\ out' = out \o <<"Luminance histogram bins:", "Luminance histogram counts:">>
    /\ pc' = "histogram"
    /\ UNCHANGED <<files, arrays, method1, method2, method3, ret>>

\* return variance_manual
ReturnValue(v_np, v_manual, v_mean) == v_manual

Return ==
    /\ pc = "histogram"
    /\ ret' = ReturnValue(variance_np, variance_manual, variance_mean)
    /\ pc' = "done"
    /\ UNCHANGED <<files, arrays, method1, method2, method3, histo, out>>

\* the exception reaches the top of the process: traceback, non-zero exit
Uncaught ==
    /\ pc = "raised"
    /\ pc' = "aborted"
    /\ UNCHANGED <<files, arrays, method1, method2, method3, histo, out, ret>>

Next ==
    \/ Main
    \/ Open
    \/ ToArray
    \/ Luminance
    \/ Method1
    \/ Method2
    \/ Method3
    \/ Report
    \/ Histogram
    \/ Return
    \/ Uncaught

Spec == Init /\ [][Next]_vars

(***************************************************************************)
(* The whole function as one value: what a successful call on a decoded    *)
(* image computes, statement by statement.                                 *)
(***************************************************************************)
RunPipeline(image) ==
    Only({ [ luminance |-> l,
             variance_np |-> np_var(l),
             variance_manual |-> VarianceManual(np_sum(l), np_sum(SquareAll(l)), Len(l)),
             variance_mean |-> VarianceMean(l, np_mean(l)),
             hist |-> HistCounts(l) \o << >>,
             bins |-> bin_edges,
             ret |-> ReturnValue(np_var(l),
                                 VarianceManual(np_sum(l), np_sum(SquareAll(l)), Len(l)),
                                 VarianceMean(l, np_mean(l))) ]
           : l \in {LuminanceOf(Normalize(image)).grid} })

(***************************************************************************)
(* The histogram on its own: np.histogram applied to a grid of one value,  *)
(* also values no image produces (below 0.0, above 1.0, next to an edge).  *)
(***************************************************************************)
\* the doubles next below and next above a positive x
NextBelow(x) ==
    Only({ IF BBitLen(m) < Precision
           THEN [s |-> 0, m |-> BSub(BShl(x.m, 1), <<1>>), e |-> x.e - 1]
           ELSE [s |-> 0, m |-> m, e |-> x.e]
           : m \in {BSub(x.m, <<1>>)} })

NextAbove(x) ==
    Only({ IF BBitLen(m) > Precision
           THEN [s |-> 0, m |-> BShr(m, 1), e |-> x.e + 1]
           ELSE [s |-> 0, m |-> m, e |-> x.e]
           : m \in {BAdd(x.m, <<1>>)} })

HistProbes ==
    { bin_edges[j] : j \in 1..(n_equal_bins + 1) }
    \cup { NextBelow(bin_edges[j]) : j \in 2..(n_equal_bins + 1) }
    \cup { FDivInt(FromInt(2 * k + 1), 2 * n_equal_bins) : k \in 0..(n_equal_bins - 1) }
    \cup { FromInt(-1), FNeg(NextBelow(FromInt(1))), FNeg(FDivInt(FromInt(1), 10000)),
           NextAbove(FromInt(1)), FDivInt(FromInt(51), 50), FromInt(2), FromInt(255) }

InitHist ==
    \E v \in HistProbes :
        /\ pc = "reported"
        /\ fp = "closed"
        /\ exc = "none"
        /\ raised_at = "none"
        /\ img = NoImage
        /\ img_array = NoImage
        /\ luminance = <<v>>
        /\ variance_np = np_var(<<v>>)
        /\ N = 1
        /\ sum_lum = np_sum(<<v>>)
        /\ sum_lum_squared = np_sum(SquareAll(<<v>>))
        /\ variance_manual = VarianceManual(np_sum(<<v>>), np_sum(SquareAll(<<v>>)), 1)
        /\ mean_lum = np_mean(<<v>>)
        /\ variance_mean = VarianceMean(<<v>>, np_mean(<<v>>))
        /\ hist = << >>
        /\ bins = << >>
        /\ out = ReportLines
        /\ ret = Unbound

NextHist ==
    \/ Histogram
    \/ Return

SpecHist == InitHist /\ [][NextHist]_vars

(***************************************************************************)
(* Properties.                                                             *)
(***************************************************************************)
One == FromInt(1)

\* 1e-12, the absolute tolerance of the cross-method comparison
AbsTol == FDivInt(FDivInt(FDivInt(One, 10000), 10000), 10000)

Close(x, y) == FLeq(FAbs(FSub(x, y)), AbsTol)

AfterLuminance ==
    pc \in {"luminance", "method1", "method2", "method3", "reported", "histogram", "done"}

AfterMethods == pc \in {"method3", "reported", "histogram", "done"}

AfterHistogram == pc \in {"histogram", "done"}

Decoded == img # NoImage

\* the R, G, B samples of pixel i of a decoded image with at least 3 channels
RGB(image, i) == SubSeq(image.px[i], 1, 3)

HasRGB(image) == image.ndim = 3 /\ image.C >= 3

Uniform(image) ==
    HasRGB(image) /\ \A i \in 1..Len(image.px) : RGB(image, i) = RGB(image, 1)

RECURSIVE SumInts(_, _)
SumInts(xs, n) == IF n = 0 THEN 0 ELSE xs[n] + SumInts(xs, n - 1)

\* C1: once the three methods have run, the direct, the sum/sum-of-squares and
\* the mean-subtraction variances of the same luminance grid agree pairwise
\* within the floating-point tolerance (1e-12 absolute).
C1_CrossMethodEquality ==
    AfterMethods =>
        /\ Close(variance_np, variance_manual)
        /\ Close(variance_np, variance_mean)
        /\ Close(variance_manual, variance_mean)

\* a grid of differing pixels whose variance is not zero and on which the
\* methods differ in the last bits: the tolerance is what makes them agree
C1_Witness ==
    /\ pc = "method3"
    /\ ~IsZero(variance_np)
    /\ FLess(AbsTol, variance_np)
    /\ variance_manual # variance_np

\* C2: the value returned by a successful call is the variance of the
\* mean-subtraction method.
C2_ReturnsMeanSubtraction == pc = "done" => ret = variance_mean

\* C3: the three weights sum to exactly 1, and for samples in [0,255] every
\* luminance lies in [0.0, 1.0], a white pixel has luminance exactly 1.0 and a
\* black pixel exactly 0.0.
C3_LuminanceRange ==
    /\ FAdd(FAdd(r_coeff, g_coeff), b_coeff) = One
    /\ (AfterLuminance /\ Decoded) =>
          \A i \in 1..Len(luminance) :
              /\ FLeq(FZero, luminance[i])
              /\ FLeq(luminance[i], One)
              /\ (RGB(img, i) = <<255, 255, 255>> => luminance[i] = One)
              /\ (RGB(img, i) = <<0, 0, 0>> => luminance[i] = FZero)

\* a grid that holds both extremes and a value strictly between them
C3_Witness ==
    /\ pc = "luminance"
    /\ \E i, j, k \in 1..Len(luminance) :
          /\ luminance[i] = One
          /\ luminance[j] = FZero
          /\ FLess(FZero, luminance[k]) /\ FLess(luminance[k], One)

\* C4: the histogram of a luminance grid with values in [0,1] has 50 counts
\* and 51 strictly increasing edges from 0.0 to 1.0, no count is negative and
\* the counts sum to H*W.
C4_HistogramConservation ==
    (AfterHistogram /\ Decoded) =>
        /\ Len(hist) = 50
        /\ Len(bins) = 51
        /\ \A j \in 1..50 : FLess(bins[j], bins[j + 1])
        /\ bins[1] = FZero
        /\ bins[51] = One
        /\ \A j \in 1..50 : hist[j] >= 0
        /\ SumInts(hist, 50) = img.H * img.W

\* a grid of three pixels with a black one (bin 0) and a white one (the closed
\* upper edge of bin 49)
C4_Witness ==
    /\ pc = "histogram"
    /\ Decoded
    /\ img.H * img.W = 3
    /\ hist[1] >= 1
    /\ hist[50] >= 1

\* C5: a value v with edge_i <= v < edge_i+1 is counted in bin i (i in 0..48),
\* a value in [0.98, 1.0] in bin 49, 1.0 included, each in that bin alone; a
\* value below 0.0 or above 1.0 is counted in no bin, and the histogram is
\* still produced without an exception.
C5_BinAssignment ==
    (AfterHistogram /\ Len(luminance) = 1) =>
        LET v == luminance[1] IN
        /\ exc = "none"
        /\ bins[50] = FDivInt(FromInt(98), 100)
        /\ \A i \in 0..48 :
              (FLeq(bins[i + 1], v) /\ FLess(v, bins[i + 2]))
                  => (hist[i + 1] = 1 /\ SumInts(hist, 50) = 1)
        /\ (FLeq(bins[50], v) /\ FLeq(v, One))
              => (hist[50] = 1 /\ SumInts(hist, 50) = 1)
        /\ (FLess(v, FZero) \/ FLess(One, v)) => \A j \in 1..50 : hist[j] = 0

\* the value 1.0 itself, counted in the last bin
C5_Witness ==
    /\ pc = "histogram"
    /\ luminance = <<One>>
    /\ hist[50] = 1

\* C6, as stated: on a uniform image the luminance grid holds one repeated
\* value, the three variances are exactly 0.0 and one bin holds all H*W pixels.
C6_UniformExactlyZero ==
    /\ (AfterMethods /\ Uniform(img)) =>
          /\ \A i \in 1..Len(luminance) : luminance[i] = luminance[1]
          /\ variance_np = FZero
          /\ variance_manual = FZero
          /\ variance_mean = FZero
    /\ (AfterHistogram /\ Uniform(img)) =>
          \E j \in 1..50 :
              /\ hist[j] = img.H * img.W
              /\ \A k \in (1..50) \ {j} : hist[k] = 0

\* C6, amended: on a uniform image the luminance grid holds one repeated
\* value, each of the three variances is 0.0 within the floating-point
\* tolerance (1e-12 absolute), exactly 0.0 when H*W <= 2, and one bin holds
\* all H*W pixels while the other 49 are empty.
C6_UniformWithinTolerance ==
    /\ (AfterMethods /\ Uniform(img)) =>
          /\ \A i \in 1..Len(luminance) : luminance[i] = luminance[1]
          /\ Close(variance_np, FZero)
          /\ Close(variance_manual, FZero)
          /\ Close(variance_mean, FZero)
          /\ (img.H * img.W <= 2) =>
                /\ variance_np = FZero
                /\ variance_manual = FZero
                /\ variance_mean = FZero
    /\ (AfterHistogram /\ Uniform(img)) =>
          \E j \in 1..50 :
              /\ hist[j] = img.H * img.W
              /\ \A k \in (1..50) \ {j} : hist[k] = 0

\* a uniform image of three pixels on which the sum/sum-of-squares method does
\* not yield 0.0
C6_Witness ==
    /\ pc = "histogram"
    /\ Uniform(img)
    /\ img.H * img.W = 3
    /\ variance_manual # FZero

\* C7: the variances are population variances: on one pixel each method
\* yields exactly 0.0, on two pixels of luminance a and b each method yields
\* ((a - b) / 2)^2 within the floating-point tolerance, 0.09 for the
\* luminances 0.2 and 0.8.
C7_PopulationVariance ==
    AfterMethods =>
        /\ Len(luminance) = 1 =>
              /\ variance_np = FZero
              /\ variance_manual = FZero
              /\ variance_mean = FZero
        /\ Len(luminance) = 2 =>
              LET v == Square(FDivInt(FSub(luminance[1], luminance[2]), 2)) IN
              /\ Close(variance_np, v)
              /\ Close(variance_manual, v)
              /\ Close(variance_mean, v)
        /\ (Decoded /\ img.px = << <<51, 51, 51>>, <<204, 204, 204>> >>) =>
              /\ Close(luminance[1], FDivInt(FromInt(2), 10))
              /\ Close(luminance[2], FDivInt(FromInt(8), 10))
              /\ Close(variance_np, FDivInt(FromInt(9), 100))
              /\ Close(variance_manual, FDivInt(FromInt(9), 100))
              /\ Close(variance_mean, FDivInt(FromInt(9), 100))

\* the two-pixel image of luminance 0.2 and 0.8, after the three methods
C7_Witness ==
    /\ pc = "method3"
    /\ img.px = << <<51, 51, 51>>, <<204, 204, 204>> >>
    /\ ~IsZero(variance_np)

\* C8: a decoded image with fewer than 3 channels ends in an IndexError raised
\* by the luminance statement; nothing handles it, and no variance is
\* computed, no line is printed and no value is returned.
C8_FewerThanThreeChannels ==
    (Decoded /\ ~HasRGB(img)) =>
        /\ pc \in {"array", "raised", "aborted"}
        /\ pc # "array" => (exc = "IndexError" /\ raised_at = "luminance")
        /\ luminance = << >>
        /\ variance_np = Unbound
        /\ variance_manual = Unbound
        /\ variance_mean = Unbound
        /\ hist = << >>
        /\ out = << >>
        /\ ret = Unbound

\* an image of mode L or LA, of two pixels or more, after the fault has left
\* the process
C8_Witness ==
    /\ pc = "aborted"
    /\ raised_at = "luminance"
    /\ img.mode \in {"L", "LA"}
    /\ Len(img.px) >= 2

\* C9: when the call has ended, by a return or by an exception, the file
\* handle it opened is no longer open.
C9_HandleReleasedOnExit == pc \in {"done", "raised", "aborted"} => fp # "open"

\* C10: channels at index 3 and above influence nothing: an image with at
\* least 3 channels raises no exception, and every result of the call (the
\* luminance grid, the three variances, the histogram, the returned value) is
\* the result of the call on the same image cut to its channels 0, 1 and 2.
C10_ExtraChannelsIgnored ==
    (Decoded /\ HasRGB(img)) =>
        /\ exc = "none"
        /\ pc = "done" =>
              LET rgb == [img EXCEPT !.C = 3,
                                     !.px = [i \in 1..Len(img.px) |-> RGB(img, i)]]
                  ref == RunPipeline(rgb)
              IN  /\ luminance = ref.luminance
                  /\ variance_np = ref.variance_np
                  /\ variance_manual = ref.variance_manual
                  /\ variance_mean = ref.variance_mean
                  /\ hist = ref.hist
                  /\ bins = ref.bins
                  /\ ret = ref.ret

\* a finished call on a four-channel image whose pixels differ in channel 3
C10_Witness ==
    /\ pc = "done"
    /\ img.C = 4
    /\ \E i, j \in 1..Len(img.px) : img.px[i][4] # img.px[j][4]
====
